---- MODULE Spec2Model ----
(***************************************************************************)
(* Rare Bridge AI: the knowledge-document store with its row-level         *)
(* security policies and SQL functions, the moderation flow served by the  *)
(* backend API, the knowledge-base chat reply of the request layer, the    *)
(* chat component, the request layer itself, the search function and the   *)
(* embeddings table.                                                       *)
(*                                                                         *)
(* Specifications:                                                         *)
(*   Spec       the document store: every API operation handled as one     *)
(*              step, and direct table access under the RLS policies;      *)
(*   SpecServe  the API operations served concurrently (requests in        *)
(*              flight, handler steps interleaved);                        *)
(*   SpecChat   api.chatKnowledgeBase, mock and live;                      *)
(*   SpecChatUI the ChatUI component: its handlers and the calls they      *)
(*              leave in flight;                                           *)
(*   SpecJson   one call of the request layer json(), in both versions of  *)
(*              frontend/lib/api.ts;                                       *)
(*   SpecSearch search_knowledge_documents over a corpus;                  *)
(*   SpecEmb    the embeddings table beside the documents table;           *)
(*   SpecVoice  the Voice page and its WebSockets;                         *)
(*   SpecKnowledge  the search tab of the Knowledge page;                  *)
(*   SpecProfiles   the profiles table under its policies;                 *)
(*   SpecAuth   the token cache of the request layer;                      *)
(*   SpecTimeouts   the timeout counters of the request layer.             *)
(***************************************************************************)
EXTENDS Integers, Sequences, FiniteSets, Bags, TLC

VARIABLES docs, resp, inflight, served, use_mocks, reply,
          ui, calls, log, upl, net, emb, hits,
          profile_rows, page, voice, auth, timeouts

vars == <<docs, resp, inflight, served, use_mocks, reply,
          ui, calls, log, upl, net, emb, hits,
          profile_rows, page, voice, auth, timeouts>>

\* the rows of the profiles table, the knowledge page, the voice page, the
\* token cache and the timeout counters of the request layer
page_vars == <<profile_rows, page, voice, auth, timeouts>>

\* the state of the chat component, of one json() call, and of the search result
client_vars == <<ui, calls, log, upl, net, hits, page_vars>>

(***************************************************************************)
(* Bounds                                                                  *)
(***************************************************************************)
\* view_count is capped so that the counter stays finite
MaxViews == 2
\* number of API requests that can be in flight at once (SpecServe)
MaxInFlight == 2
\* similarity scores are hundredths: 0 .. ScoreMax stands for 0.00 .. 1.00
ScoreMax == 100

NULL == "NULL"

\* identities that have a row in profiles; auth.uid() is NULL for a guest
Uids == {"m1", "a1"}
Callers == Uids \cup {NULL}
\* who submits documents: a guest and a member (the author column of their rows)
Submitters == {NULL, "m1"}
DocIds == {"d1", "d2"}
Statuses == {"pending", "approved", "rejected"}
Actions == {"approved", "rejected"}

\* words of titles and queries; "the" is an english stop word
\* the title each document is submitted with
DocTitle == [d1 |-> <<"pku">>, d2 |-> <<"the", "diet">>]
Queries == {<< >>, <<"pku">>, <<"diet">>, <<"the">>}
StopWords == {"the"}

(***************************************************************************)
(* profiles table and the role test used by every admin policy             *)
(***************************************************************************)
profiles == [m1 |-> "member", a1 |-> "admin"]

\* exists (select 1 from profiles p where p.id = auth.uid() and p.role = 'admin')
is_admin_mut(uid) == uid \in Uids

is_admin(uid) == uid \in Uids /\ profiles[uid] = "admin"

NoDoc == [status |-> "none"]

\* the rows of the table
Rows(D) == {d \in DocIds : D[d] # NoDoc}

(***************************************************************************)
(* Row-level security policies on the documents table                      *)
(***************************************************************************)
\* "read approved" / "Anyone can view approved documents"
read_approved(D, d) == D[d].status = "approved"

\* "authors read own": author = auth.uid()  (NULL = NULL is not true in SQL)
authors_read_own_mut(D, uid, d) == uid # NULL

authors_read_own(D, uid, d) == uid # NULL /\ D[d].author = uid

\* "admins manage" (for all) / "Admins can view|update|delete documents"
admins_manage(uid) == is_admin(uid)

\* permissive policies are OR-ed: the rows a SELECT by uid can see
CanSelect(D, uid, d) ==
    /\ d \in Rows(D)
    /\ (read_approved(D, d) \/ authors_read_own(D, uid, d) \/ admins_manage(uid))

\* "members create pending": with check (author = auth.uid()); admins by "admins manage"
CanInsert(uid, row) ==
    \/ (uid # NULL /\ row.author = uid)
    \/ admins_manage(uid)

\* UPDATE and DELETE: only "admins manage"
CanUpdate(D, uid, d) == d \in Rows(D) /\ admins_manage(uid)

CanDelete(D, uid, d) == d \in Rows(D) /\ admins_manage(uid)

(***************************************************************************)
(* Text search: to_tsvector / plainto_tsquery / @@                         *)
(***************************************************************************)
\* to_tsvector('english', text): the set of lexemes, stop words dropped
to_tsvector(words) == {words[i] : i \in 1..Len(words)} \ StopWords

\* plainto_tsquery('english', q): the lexemes of q, AND-ed
plainto_tsquery(q) == {q[i] : i \in 1..Len(q)} \ StopWords

\* tsvector @@ tsquery : every lexeme of the query occurs; an empty query matches nothing
ts_match(vec, query) == query # {} /\ query \subseteq vec

\* WHERE kd.status = 'approved' AND (search_query = '' OR tsvector @@ tsquery)
search_where_mut(D, d, q) ==
    (q = << >> \/ ts_match(to_tsvector(D[d].title), plainto_tsquery(q)))

search_where(D, d, q) ==
    /\ D[d].status = "approved"
    /\ (q = << >> \/ ts_match(to_tsvector(D[d].title), plainto_tsquery(q)))

\* search_knowledge_documents(search_query), run with the rights of uid
search_knowledge_documents(D, uid, q) ==
    {d \in Rows(D) : CanSelect(D, uid, d) /\ search_where(D, d, q)}

(***************************************************************************)
(* increment_view_count: UPDATE ... SET view_count = view_count + 1        *)
(***************************************************************************)
\* the new counter value; cur is the row's value when the UPDATE runs,
\* seen is the value the handler read before it
increment_view_count_mut(cur, seen) == seen + 1

increment_view_count(cur, seen) == cur + 1

(***************************************************************************)
(* Responses                                                               *)
(***************************************************************************)
\* what the last operation returned: its outcome and the ids of the rows it handed out
\* (body is the admin_user_id a moderate request carried, NULL for the other operations)
Response(op, caller, d, result, rows) ==
    [op |-> op, caller |-> caller, doc |-> d, result |-> result, rows |-> rows, body |-> NULL]

NoResponse == Response("none", NULL, NULL, "none", {})

\* a freshly submitted row: status DEFAULT 'pending', view_count DEFAULT 0
NewDocument(author, title) ==
    [status |-> "pending", view_count |-> 0, author |-> author, title |-> title,
     approved_at |-> NULL, approved_by |-> NULL]

(***************************************************************************)
(* Backend API handlers (the server side of frontend/lib/api.ts). Each is  *)
(* an operator from the table D to the new table and the result.           *)
(***************************************************************************)
Outcome(D, result, rows) == [docs |-> D, result |-> result, rows |-> rows]

\* POST /knowledge/submit
submit(D, caller, d, title) ==
    IF title = << >> THEN Outcome(D, "ValidationError", {})
    ELSE Outcome([D EXCEPT ![d] = NewDocument(caller, title)], "ok", {d})

\* the conditional update of moderate succeeds only if the status still equals pending
still_pending_mut(D, d) == TRUE

still_pending_late(D, d) == D[d].status \in {"pending", "rejected"}

still_pending(D, d) == D[d].status = "pending"

\* the columns a successful moderate writes
moderate_update(D, caller, d, action) ==
    [D EXCEPT ![d].status = action,
              ![d].approved_at = IF action = "approved" THEN "ts" ELSE D[d].approved_at,
              ![d].approved_by = IF action = "approved" THEN caller ELSE D[d].approved_by]

\* POST /knowledge/moderate/{id} {action, admin_user_id}: the role checked is
\* that of the authenticated caller; admin_user_id of the body is not consulted
moderate(D, caller, admin_user_id, d, action) ==
    IF ~admins_manage(caller) THEN Outcome(D, "Forbidden", {})
    ELSE IF d \notin Rows(D) THEN Outcome(D, "NotFound", {})
    ELSE IF ~still_pending(D, d) THEN Outcome(D, "InvalidState", {})
    ELSE Outcome(moderate_update(D, caller, d, action), "ok", {d})

\* get: the caller may see the document if it is approved, or the caller is admin or author
get_permitted(D, caller, d) ==
    D[d].status = "approved" \/ is_admin(caller) \/ (caller # NULL /\ D[d].author = caller)

\* GET /knowledge/pending
listPending(D, caller) ==
    IF ~is_admin(caller) THEN Outcome(D, "Forbidden", {})
    ELSE Outcome(D, "ok", {d \in Rows(D) : D[d].status = "pending"})

\* GET /knowledge/popular
listPopular(D, caller) ==
    Outcome(D, "ok", {d \in Rows(D) : D[d].status = "approved"})

\* GET /knowledge/search
search(D, caller, q) == Outcome(D, "ok", search_knowledge_documents(D, caller, q))

\* GET /knowledge/document/{id}: read, then increment_view_count if permitted
get(D, caller, d) ==
    IF d \notin Rows(D) THEN Outcome(D, "NotFound", {})
    ELSE IF ~get_permitted(D, caller, d) THEN Outcome(D, "Forbidden", {})
    ELSE Outcome([D EXCEPT ![d].view_count =
                      increment_view_count(D[d].view_count, D[d].view_count)], "ok", {d})

(***************************************************************************)
(* State                                                                   *)
(***************************************************************************)
Idle == [op |-> "idle"]

\* the embeddings table: chunk id -> row, NoChunk where there is no row
ChunkIds == {"c1", "c2"}

NoChunk == [document_id |-> "none"]

NoChunks == [c \in ChunkIds |-> NoChunk]

\* document_id uuid references documents(id) on delete cascade: the chunks of
\* a document that is no longer in D go with it
on_delete_cascade_mut(E, D) == E

on_delete_cascade(E, D) ==
    [c \in ChunkIds |->
        IF E[c] # NoChunk /\ E[c].document_id \in DocIds /\ E[c].document_id \notin Rows(D)
        THEN NoChunk ELSE E[c]]

\* the chat component before it is mounted, no json() call, no search result
NoUi == [mode |-> "none"]

NoCall == [phase |-> "none"]

\* what the chat component did last (the api call it made or the reply that
\* send handled), and the questions for which send has raised the fallback
\* prompt
NoEvent == [ev |-> "none"]

NoLog == [last |-> NoEvent, low |-> {}]

NoHits == [q |-> <<NULL>>, items |-> << >>, total |-> 0]

\* a component that is not mounted, a table or a module that is not loaded
Unused == [used |-> FALSE]

PagesIdle ==
    /\ profile_rows = Unused
    /\ page = Unused
    /\ voice = Unused
    /\ auth = Unused
    /\ timeouts = Unused

ClientIdle ==
    /\ ui = NoUi
    /\ calls = EmptyBag
    /\ log = NoLog
    /\ upl = NULL
    /\ net = NoCall
    /\ hits = NoHits
    /\ PagesIdle

Init ==
    /\ docs = [d \in DocIds |-> NoDoc]
    /\ resp = NoResponse
    /\ inflight = [i \in 1..MaxInFlight |-> Idle]
    /\ served = [d \in DocIds |-> [gets |-> 0, mods |-> << >>]]
    /\ use_mocks = FALSE
    /\ reply = [role |-> "none"]
    /\ ClientIdle
    /\ emb = NoChunks

\* the variables the document store does not touch
StoreFrame == UNCHANGED <<inflight, served, use_mocks, reply, client_vars>>

\* one API call handled in one step
Handled(op, caller, d, out) ==
    /\ docs' = out.docs
    /\ emb' = on_delete_cascade(emb, out.docs)
    /\ resp' = Response(op, caller, d, out.result, out.rows)
    /\ StoreFrame

(***************************************************************************)
(* API operations, each handled as one step                                *)
(***************************************************************************)
Submit ==
    \E caller \in Submitters, d \in DocIds :
      \E title \in {DocTitle[d], << >>} :
        /\ docs[d] = NoDoc
        /\ Handled("submit", caller, d, submit(docs, caller, d, title))

Search ==
    \E caller \in Callers, q \in Queries :
        Handled("search", caller, NULL, search(docs, caller, q))

Get ==
    \E caller \in Callers, d \in DocIds :
        /\ docs[d] # NoDoc => docs[d].view_count < MaxViews
        /\ Handled("get", caller, d, get(docs, caller, d))

ListPending ==
    \E caller \in Callers :
        Handled("listPending", caller, NULL, listPending(docs, caller))

ListPopular ==
    \E caller \in Callers :
        Handled("listPopular", caller, NULL, listPopular(docs, caller))

Moderate ==
    \E caller \in Callers, admin_user_id \in Uids, d \in DocIds, action \in Actions :
        LET out == moderate(docs, caller, admin_user_id, d, action)
        IN /\ docs' = out.docs
           /\ emb' = on_delete_cascade(emb, out.docs)
           /\ resp' = [Response("moderate", caller, d, out.result, out.rows)
                          EXCEPT !.body = admin_user_id]
           /\ StoreFrame

(***************************************************************************)
(* Direct table access with the caller's own credentials: what the RLS     *)
(* policies let each role do                                               *)
(***************************************************************************)
\* SELECT * FROM documents
RlsSelect ==
    \E caller \in Callers :
        Handled("select", caller, NULL,
                Outcome(docs, "ok", {d \in Rows(docs) : CanSelect(docs, caller, d)}))

\* INSERT INTO documents (author, title, status, view_count) VALUES (...)
RlsInsert ==
    \E caller \in Callers, d \in DocIds, author \in Submitters :
        /\ docs[d] = NoDoc
        /\ IF CanInsert(caller, NewDocument(author, DocTitle[d]))
           THEN \E status \in Statuses, views \in 0..MaxViews :
                  Handled("insert", caller, d,
                          Outcome([docs EXCEPT ![d] =
                                      [NewDocument(author, DocTitle[d])
                                          EXCEPT !.status = status, !.view_count = views]],
                                  "ok", {d}))
           ELSE Handled("insert", caller, d, Outcome(docs, "rls_violation", {}))

\* UPDATE documents SET status = ..., view_count = ..., approved_at = ...,
\* approved_by = ... WHERE id = d  (the approval columns set to now() and the
\* caller, or to NULL)
RlsUpdate ==
    \E caller \in Callers, d \in DocIds :
        IF CanUpdate(docs, caller, d)
        THEN \E status \in Statuses, views \in 0..MaxViews, stamp \in BOOLEAN :
               Handled("update", caller, d,
                       Outcome([docs EXCEPT ![d].status = status, ![d].view_count = views,
                                   ![d].approved_at = IF stamp THEN "ts" ELSE NULL,
                                   ![d].approved_by = IF stamp THEN caller ELSE NULL],
                               "ok", {d}))
        ELSE Handled("update", caller, d, Outcome(docs, "ok", {}))

\* DELETE FROM documents WHERE id = d
RlsDelete ==
    \E caller \in Callers, d \in DocIds :
        Handled("delete", caller, d,
                IF CanDelete(docs, caller, d)
                THEN Outcome([docs EXCEPT ![d] = NoDoc], "ok", {d})
                ELSE Outcome(docs, "ok", {}))

\* select increment_view_count(d), called as an RPC by the caller
RpcIncrementViewCount ==
    \E caller \in Callers, d \in DocIds :
        /\ docs[d] # NoDoc => docs[d].view_count < MaxViews
        /\ Handled("rpc_increment", caller, d,
                   IF CanUpdate(docs, caller, d)
                   THEN Outcome([docs EXCEPT ![d].view_count =
                                    increment_view_count(docs[d].view_count, docs[d].view_count)],
                                "ok", {d})
                   ELSE Outcome(docs, "ok", {}))

Next ==
    \/ Submit
    \/ Search
    \/ Get
    \/ ListPending
    \/ ListPopular
    \/ Moderate
    \/ RlsSelect
    \/ RlsInsert
    \/ RlsUpdate
    \/ RlsDelete
    \/ RpcIncrementViewCount

Spec == Init /\ [][Next]_vars

(***************************************************************************)
(* The API served concurrently: api.knowledge.moderate / api.knowledge.get *)
(* put a request in flight, the server handles it in its own steps, the    *)
(* client receives the response.  served is the history of what the        *)
(* handlers did: per document the number of permitted gets completed and   *)
(* the actions of the moderate calls that succeeded.                       *)
(***************************************************************************)
Request(op, caller, d, action) ==
    [op |-> op, caller |-> caller, doc |-> d, action |-> action,
     stage |-> "sent", result |-> "none", seen |-> NULL]

\* a request takes the first free slot
FirstIdle(i) == inflight[i] = Idle /\ \A j \in 1..(i - 1) : inflight[j] # Idle

\* the table after one submission: one pending document
InitServe ==
    /\ \E d \in DocIds, caller \in Submitters :
          docs = submit([e \in DocIds |-> NoDoc], caller, d, DocTitle[d]).docs
    /\ resp = NoResponse
    /\ inflight = [i \in 1..MaxInFlight |-> Idle]
    /\ served = [d \in DocIds |-> [gets |-> 0, mods |-> << >>]]
    /\ use_mocks = FALSE
    /\ reply = [role |-> "none"]
    /\ ClientIdle
    /\ emb = NoChunks

\* gets of d that are in flight and have not failed
GetsInFlight(d) ==
    {i \in 1..MaxInFlight : inflight[i].op = "get" /\ inflight[i].doc = d
                             /\ inflight[i].stage \in {"sent", "read"}}

\* handleModerate: Approve or Reject clicked on a row of the queue view, which lists
\* the documents that were pending when it was loaded; the view may be stale by the
\* time the server handles the call
IssueModerate ==
    \E i \in 1..MaxInFlight, caller \in Uids, d \in DocIds, action \in Actions :
        /\ FirstIdle(i)
        /\ docs[d] # NoDoc /\ docs[d].status = "pending"
        /\ inflight' = [inflight EXCEPT ![i] = Request("moderate", caller, d, action)]
        /\ UNCHANGED <<docs, resp, served, use_mocks, reply, client_vars, emb>>

\* the server runs moderate for a request in flight
HandleModerate ==
    \E i \in 1..MaxInFlight :
        LET r == inflight[i]
            out == moderate(docs, r.caller, r.caller, r.doc, r.action)
        IN /\ r.op = "moderate" /\ r.stage = "sent"
           /\ docs' = out.docs
           /\ inflight' = [inflight EXCEPT ![i].stage = "done", ![i].result = out.result]
           /\ served' = IF out.result = "ok" /\ Len(served[r.doc].mods) < 2
                        THEN [served EXCEPT ![r.doc].mods = Append(@, r.action)]
                        ELSE served
           /\ UNCHANGED <<resp, use_mocks, reply, client_vars, emb>>

\* api.knowledge.get(id)
IssueGet ==
    \E i \in 1..MaxInFlight, caller \in Uids, d \in DocIds :
        /\ FirstIdle(i)
        /\ docs[d] # NoDoc
        /\ served[d].gets + Cardinality(GetsInFlight(d)) < MaxViews
        /\ inflight' = [inflight EXCEPT ![i] = Request("get", caller, d, NULL)]
        /\ UNCHANGED <<docs, resp, served, use_mocks, reply, client_vars, emb>>

\* the handler reads the row and decides whether the caller may see it
GetRead ==
    \E i \in 1..MaxInFlight :
        LET r == inflight[i]
        IN /\ r.op = "get" /\ r.stage = "sent"
           /\ inflight' = [inflight EXCEPT ![i] =
                  IF get_permitted(docs, r.caller, r.doc)
                  THEN [r EXCEPT !.stage = "read", !.seen = docs[r.doc].view_count]
                  ELSE [r EXCEPT !.stage = "done", !.result = "Forbidden"]]
           /\ UNCHANGED <<docs, resp, served, use_mocks, reply, client_vars, emb>>

\* the handler calls increment_view_count(id) and answers
GetIncrement ==
    \E i \in 1..MaxInFlight :
        LET r == inflight[i]
        IN /\ r.op = "get" /\ r.stage = "read"
           /\ docs' = [docs EXCEPT ![r.doc].view_count =
                          increment_view_count(docs[r.doc].view_count, r.seen)]
           /\ served' = [served EXCEPT ![r.doc].gets = @ + 1]
           /\ inflight' = [inflight EXCEPT ![i].stage = "done", ![i].result = "ok"]
           /\ UNCHANGED <<resp, use_mocks, reply, client_vars, emb>>

\* the client takes the response
Receive ==
    \E i \in 1..MaxInFlight :
        /\ inflight[i] # Idle /\ inflight[i].stage = "done"
        /\ inflight' = [inflight EXCEPT ![i] = Idle]
        /\ UNCHANGED <<docs, resp, served, use_mocks, reply, client_vars, emb>>

NextServe ==
    \/ IssueModerate
    \/ HandleModerate
    \/ IssueGet
    \/ GetRead
    \/ GetIncrement
    \/ Receive

SpecServe == InitServe /\ [][NextServe]_vars

(***************************************************************************)
(* api.chatKnowledgeBase: the reply to a knowledge-base question.          *)
(* Scores are hundredths; content is a sequence of text parts, << >> for   *)
(* the empty string.                                                       *)
(***************************************************************************)
\* the confidence threshold 0.7
ConfidenceThreshold == 70

\* messages[messages.length - 1]?.content || ""
Questions == {"", "what is pku"}

\* USE_MOCKS branch: mockSimilarity = Math.random(), a number in [0, 1)
chatKnowledgeBase_mock(last, mockSimilarity) ==
    IF mockSimilarity > ConfidenceThreshold
    THEN [role |-> "assistant",
          content |-> <<"Based on our knowledge base: ", last>>,
          source |-> "knowledge_base",
          similarity_score |-> mockSimilarity,
          citations |-> <<"kb-1">>]
    ELSE [role |-> "assistant",
          content |-> << >>,
          source |-> "knowledge_base",
          similarity_score |-> mockSimilarity,
          citations |-> << >>]

\* POST /chat/knowledge-base: the reply of the retrieval flow for a best-match score
chatKnowledgeBase_live(last, score) ==
    IF score >= ConfidenceThreshold
    THEN [role |-> "assistant",
          content |-> <<"answer from chunks: ", last>>,
          source |-> "knowledge_base",
          similarity_score |-> score,
          citations |-> <<"chunk">>]
    ELSE [role |-> "assistant",
          content |-> << >>,
          source |-> "knowledge_base",
          similarity_score |-> score,
          citations |-> << >>]

\* USE_MOCKS is fixed by the environment when the page loads
InitChat ==
    /\ docs = [d \in DocIds |-> NoDoc]
    /\ resp = NoResponse
    /\ inflight = [i \in 1..MaxInFlight |-> Idle]
    /\ served = [d \in DocIds |-> [gets |-> 0, mods |-> << >>]]
    /\ use_mocks \in BOOLEAN
    /\ reply = [role |-> "none"]
    /\ ClientIdle
    /\ emb = NoChunks

ChatKnowledgeBaseMock ==
    \E last \in Questions, mockSimilarity \in 0..(ScoreMax - 1) :
        /\ use_mocks
        /\ reply' = chatKnowledgeBase_mock(last, mockSimilarity)
        /\ UNCHANGED <<docs, resp, inflight, served, use_mocks, client_vars, emb>>

ChatKnowledgeBaseLive ==
    \E last \in Questions, score \in 0..ScoreMax :
        /\ ~use_mocks
        /\ reply' = chatKnowledgeBase_live(last, score)
        /\ UNCHANGED <<docs, resp, inflight, served, use_mocks, client_vars, emb>>

NextChat ==
    \/ ChatKnowledgeBaseMock
    \/ ChatKnowledgeBaseLive

SpecChat == InitChat /\ [][NextChat]_vars

(***************************************************************************)
(* The embeddings table beside the documents table.  Chunks are written by *)
(* the backend's ingestion with the service role; clients reach the table  *)
(* under its one policy, "read embeddings of approved docs".               *)
(***************************************************************************)
\* the chunks of document d
ChunksOf(E, d) == {c \in ChunkIds : E[c] # NoChunk /\ E[c].document_id = d}

\* "read embeddings of approved docs": exists (select 1 from documents d where
\* d.id = document_id and d.status = 'approved'); the subquery runs under the
\* caller's own select policies on documents
read_embeddings_of_approved_docs_mut(D, E, uid, c) ==
    \E d \in Rows(D) : CanSelect(D, uid, d) /\ d = E[c].document_id

read_embeddings_of_approved_docs(D, E, uid, c) ==
    \E d \in Rows(D) :
        CanSelect(D, uid, d) /\ d = E[c].document_id /\ D[d].status = "approved"

\* ingestion stores the next chunk of a document: ordinals contiguous from zero
ingest(D, E, c, d) ==
    [E EXCEPT ![c] = [document_id |-> d, chunk_index |-> Cardinality(ChunksOf(E, d))]]

\* the knowledge-base scope of the nearest-neighbour search: the chunks of all
\* approved documents
knowledge_base_scope(D, E) ==
    {c \in ChunkIds : /\ E[c] # NoChunk
                       /\ E[c].document_id \in Rows(D)
                       /\ D[E[c].document_id].status = "approved"}

\* a step that touches the embeddings table and answers with chunk ids
EmbHandled(op, caller, d, E, rows) ==
    /\ emb' = E
    /\ resp' = Response(op, caller, d, "ok", rows)
    /\ UNCHANGED <<docs, inflight, served, use_mocks, reply, client_vars>>

\* a new chunk takes the first free id
FirstFreeChunk(c) ==
    /\ emb[c] = NoChunk
    /\ \A b \in ChunkIds : emb[b] = NoChunk => c \in {"c1", b}

Ingest ==
    \E c \in ChunkIds, d \in Rows(docs) :
        /\ FirstFreeChunk(c)
        /\ EmbHandled("ingest", NULL, d, ingest(docs, emb, c, d), {c})

\* SELECT * FROM embeddings
RlsSelectEmbeddings ==
    \E caller \in Callers :
        EmbHandled("select_embeddings", caller, NULL, emb,
                   {c \in ChunkIds : /\ emb[c] # NoChunk
                                      /\ read_embeddings_of_approved_docs(docs, emb, caller, c)})

\* INSERT / UPDATE / DELETE on embeddings by a client: row-level security is
\* enabled and no policy covers these commands, so no row is written
RlsWriteEmbeddings ==
    \E caller \in Callers, op \in {"insert_embedding", "delete_embedding"} :
        EmbHandled(op, caller, NULL, emb, {})

\* the retrieval step of a knowledge-base chat: the chunks cited
KbRetrieve ==
    \E caller \in Callers :
        EmbHandled("kb_chat", caller, NULL, emb, knowledge_base_scope(docs, emb))

\* UPDATE documents SET status = ... WHERE id = d
RlsUpdateStatus ==
    \E caller \in Callers, d \in DocIds, status \in Statuses :
        Handled("update", caller, d,
                IF CanUpdate(docs, caller, d)
                THEN Outcome([docs EXCEPT ![d].status = status], "ok", {d})
                ELSE Outcome(docs, "ok", {}))

NextEmb ==
    \/ Submit
    \/ Moderate
    \/ RlsUpdateStatus
    \/ RlsDelete
    \/ Ingest
    \/ RlsSelectEmbeddings
    \/ RlsWriteEmbeddings
    \/ KbRetrieve

SpecEmb == Init /\ [][NextEmb]_vars

(***************************************************************************)
(* search_knowledge_documents over a corpus: the rows carry created_at,    *)
(* the result is the matching rows in the order of ORDER BY.               *)
(***************************************************************************)
\* created_at values of the corpus
MaxTime == 2

\* titles of the corpus: one, two and no occurrence of the word pku
SearchTitles == {<<"pku">>, <<"pku", "pku">>, <<"the", "diet">>}

\* a stored row with its created_at column
StoredDocument(status, title, created_at) ==
    [status |-> status, view_count |-> 0, author |-> NULL, title |-> title,
     approved_at |-> NULL, approved_by |-> NULL, created_at |-> created_at]

\* ts_rank(to_tsvector(title), plainto_tsquery(search_query)): grows with the
\* number of occurrences of the query's lexemes, 0 for the empty query
ts_rank(words, query) == Cardinality({i \in 1..Len(words) : words[i] \in query})

relevance(D, d, q) == ts_rank(D[d].title, plainto_tsquery(q))

\* ORDER BY relevance DESC, kd.created_at DESC: may row a stand before row b
order_by_mut(D, q, a, b) ==
    \/ relevance(D, a, q) > relevance(D, b, q)
    \/ (relevance(D, a, q) = relevance(D, b, q) /\ D[a].created_at <= D[b].created_at)

order_by(D, q, a, b) ==
    \/ relevance(D, a, q) > relevance(D, b, q)
    \/ (relevance(D, a, q) = relevance(D, b, q) /\ D[a].created_at >= D[b].created_at)

\* the orders in which the function may return its rows: every arrangement of
\* the selected rows that ORDER BY allows (rows equal in both keys in any order)
search_knowledge_documents_rows(D, uid, q) ==
    LET S == search_knowledge_documents(D, uid, q)
        n == Cardinality(S)
    IN {s \in [1..n -> S] :
            /\ \A a \in S : \E i \in 1..n : s[i] = a
            /\ \A i, j \in 1..n : i < j => order_by(D, q, s[i], s[j])}

\* GET /knowledge/search: the page of results and their number
search_response(q, rows) == [q |-> q, items |-> rows, total |-> Len(rows)]

InitSearch ==
    /\ docs \in [DocIds -> {NoDoc} \cup
                    {StoredDocument(st, t, c) : st \in Statuses, t \in SearchTitles,
                                                c \in 1..MaxTime}]
    /\ resp = NoResponse
    /\ inflight = [i \in 1..MaxInFlight |-> Idle]
    /\ served = [d \in DocIds |-> [gets |-> 0, mods |-> << >>]]
    /\ use_mocks = FALSE
    /\ reply = [role |-> "none"]
    /\ ClientIdle
    /\ emb = NoChunks

SearchCorpus ==
    \E caller \in Callers, q \in Queries :
      \E rows \in search_knowledge_documents_rows(docs, caller, q) :
        /\ hits' = search_response(q, rows)
        /\ UNCHANGED <<docs, resp, inflight, served, use_mocks, reply,
                       ui, calls, log, upl, net, emb, page_vars>>

NextSearch == SearchCorpus

SpecSearch == InitSearch /\ [][NextSearch]_vars

(***************************************************************************)
(* The request layer json() of frontend/lib/api.ts, one call at a time, in *)
(* its two versions:                                                       *)
(*   "api.ts"    authHeaders awaits supabase.auth.getSession(); a 401 is   *)
(*               answered by refreshSession and one retry;                 *)
(*   "part_010"  authHeaders reads the cached token; a 401 is answered by  *)
(*               signOut and an error; timeouts are counted.               *)
(* The server and the credential provider answer when they answer, or      *)
(* never; the timer, once set, elapses.                                    *)
(***************************************************************************)
Versions == {"api.ts", "part_010"}

\* HTTP statuses of a response; 0 stands for no response yet
HttpStatuses == {200, 401, 403, 500}

\* consecutive timeouts counted before the model stops issuing calls
MaxTimeouts == 3

\* module state of api.ts and the call in progress
NewNet(version) ==
    [version |-> version, phase |-> "none", timeoutMs |-> 0, timer |-> "unset", sent |-> 0,
     first_status |-> 0, status |-> 0, outcome |-> "none", refreshed |-> FALSE,
     consecutiveTimeouts |-> 0, stale |-> FALSE, reload |-> FALSE]

\* opts?.timeoutMs ?? default: 15 s in api.ts, 5 s in part_010; the calls of
\* the chat functions pass 45000, those of the knowledge functions 15000, the
\* others none (0 here)
TimeoutOpts == {0, 15000, 45000}

timeout_ms(version, opts) ==
    IF opts # 0 THEN opts ELSE IF version = "api.ts" THEN 15000 ELSE 5000

\* the phases in which json() is suspended on an await
Awaiting == {"authHeaders", "fetch", "refreshSession", "retryHeaders", "retry", "signOut"}

\* json() returns or throws: the finally block clears the timer
settle(n, outcome) ==
    [n EXCEPT !.phase = "settled", !.outcome = outcome,
              !.timer = IF n.timer = "unset" THEN "unset" ELSE "cleared"]

\* fetch(..., {signal}) is issued: with the signal already aborted it rejects
\* at once with AbortError, which json() reports as a timeout
fetch(n, phase) ==
    IF n.timer = "fired" THEN settle(n, "timeout")
    ELSE [n EXCEPT !.phase = phase, !.sent = n.sent + 1]

\* what json() does with a response to its first fetch
on_first_response(n, status) ==
    IF status = 401
    THEN IF n.version = "api.ts"
         THEN [n EXCEPT !.phase = "refreshSession"]
         ELSE [n EXCEPT !.phase = "signOut"]
    ELSE IF status = 200 THEN settle(n, "resolved")
    ELSE settle(n, "http")

\* what json() of api.ts does with the response to its retry
on_retry_response(n, status) ==
    IF status = 200 THEN settle(n, "resolved") ELSE settle(n, "http")

\* part_010 only: a response resets the timeout counter and lastSuccessTime
note_response(n) ==
    IF n.version = "part_010"
    THEN [n EXCEPT !.consecutiveTimeouts = 0, !.stale = FALSE]
    ELSE n

\* part_010 only: the timer callback counts the timeout and schedules a page
\* reload after two in a row with no response for 30 s
note_timeout(n) ==
    IF n.version = "part_010"
    THEN [n EXCEPT !.consecutiveTimeouts = n.consecutiveTimeouts + 1,
                   !.reload = n.reload \/ (n.consecutiveTimeouts + 1 >= 2 /\ n.stale)]
    ELSE n

InitJson ==
    /\ docs = [d \in DocIds |-> NoDoc]
    /\ resp = NoResponse
    /\ inflight = [i \in 1..MaxInFlight |-> Idle]
    /\ served = [d \in DocIds |-> [gets |-> 0, mods |-> << >>]]
    /\ use_mocks = FALSE
    /\ reply = [role |-> "none"]
    /\ ui = NoUi /\ calls = EmptyBag /\ log = NoLog /\ upl = NULL /\ hits = NoHits
    /\ PagesIdle
    /\ emb = NoChunks
    /\ \E version \in Versions : net = NewNet(version)

JsonFrame == UNCHANGED <<docs, resp, inflight, served, use_mocks, reply,
                         ui, calls, log, upl, hits, emb, page_vars>>

\* json(path, opts) is called
JsonCall ==
    \E opts \in TimeoutOpts :
        /\ net.phase \in {"none", "settled"}
        /\ net.consecutiveTimeouts < MaxTimeouts
        /\ LET n == [net EXCEPT !.timer = "unset", !.sent = 0, !.first_status = 0,
                                !.status = 0, !.outcome = "pending", !.refreshed = FALSE,
                                !.timeoutMs = timeout_ms(net.version, opts)]
           IN net' = IF net.version = "api.ts"
                     THEN [n EXCEPT !.phase = "authHeaders"]
                     ELSE fetch([n EXCEPT !.timer = "armed"], "fetch")
        /\ JsonFrame

\* supabase.auth.getSession() answers an authHeaders() of api.ts
GetSessionAnswers ==
    /\ net.phase \in {"authHeaders", "retryHeaders"}
    /\ net' = IF net.phase = "authHeaders"
              THEN fetch([net EXCEPT !.timer = "armed"], "fetch")
              ELSE fetch(net, "retry")
    /\ JsonFrame

\* the server answers the fetch in progress
ServerAnswers ==
    \E status \in HttpStatuses :
        /\ net.phase \in {"fetch", "retry"}
        /\ LET n == note_response([net EXCEPT !.status = status,
                        !.first_status = IF net.phase = "fetch" THEN status ELSE @])
           IN net' = IF net.phase = "fetch"
                     THEN on_first_response(n, status)
                     ELSE on_retry_response(n, status)
        /\ JsonFrame

\* the fetch in progress fails (connection refused, reset)
NetworkError ==
    /\ net.phase \in {"fetch", "retry"}
    /\ net' = settle(net, "network")
    /\ JsonFrame

\* timeoutMs elapses: the callback aborts the controller; a fetch in progress
\* rejects with AbortError, any other await is not affected
TimerFires ==
    /\ net.timer = "armed"
    /\ LET n == note_timeout([net EXCEPT !.timer = "fired"])
       IN net' = IF net.phase \in {"fetch", "retry"} THEN settle(n, "timeout") ELSE n
    /\ JsonFrame

\* supabase.auth.refreshSession() answers (its failure is ignored)
RefreshSessionAnswers ==
    /\ net.phase = "refreshSession"
    /\ net' = [net EXCEPT !.phase = "retryHeaders", !.refreshed = TRUE]
    /\ JsonFrame

\* supabase.auth.signOut() answers: "Your session has expired"
SignOutAnswers ==
    /\ net.phase = "signOut"
    /\ net' = settle(net, "session")
    /\ JsonFrame

\* 30 s go by without a response
TimePasses ==
    /\ net.version = "part_010" /\ ~net.stale
    /\ net' = [net EXCEPT !.stale = TRUE]
    /\ JsonFrame

NextJson ==
    \/ JsonCall
    \/ GetSessionAnswers
    \/ ServerAnswers
    \/ NetworkError
    \/ TimerFires
    \/ RefreshSessionAnswers
    \/ SignOutAnswers
    \/ TimePasses

SpecJson == InitJson /\ [][NextJson]_vars /\ WF_vars(TimerFires)

(***************************************************************************)
(* The ChatUI component.  ui is its React state; calls are the api calls   *)
(* its handlers are awaiting, which return in any order; upl is the number *)
(* of chunks the backend stored for the uploaded document; log records the *)
(* api calls made and how each reply was handled.                          *)
(***************************************************************************)
\* messages in the transcript when the model stops sending
MaxMsgs == 3

\* api calls awaited at once
MaxPending == 2

\* chunks the ingestion may report for an upload
MaxChunks == 1

Modes == {"knowledge_base", "document_upload"}

\* what the user types (send() returns at once on blank input)
UiQuestions == {"q1"}

\* best-match scores of the replies, in hundredths
UiScores == {0, ConfidenceThreshold - 1, ConfidenceThreshold}

\* a string is the sequence of its characters
DigitChars == <<"0", "1", "2", "3", "4", "5", "6", "7", "8", "9">>

RECURSIVE NumberToString(_)
\* `${n}` of a number in a template literal
NumberToString(n) ==
    IF n < 10 THEN <<DigitChars[n + 1]>>
    ELSE NumberToString(n \div 10) \o <<DigitChars[(n % 10) + 1]>>

\* String.prototype.includes
includes(message, pattern) ==
    \E i \in 1..(Len(message) - Len(pattern) + 1) :
        SubSeq(message, i, i + Len(pattern) - 1) = pattern

\* timeoutMs of the chat calls
ChatTimeoutMs == 45000

\* the path of a chat call: "/chat/knowledge-base", "/chat/general-response"
\* or `/docs/${documentId}/chat` (the uploaded document is "u1")
chat_path(api) ==
    IF api = "chatWithDocument"
    THEN <<"/", "d", "o", "c", "s", "/", "u", "1", "/", "c", "h", "a", "t">>
    ELSE IF api = "getGeneralResponse"
    THEN <<"/", "c", "h", "a", "t", "/", "g", "e", "n", "e", "r", "a", "l", "-", "r", "e", "s", "p", "o", "n", "s", "e">>
    ELSE <<"/", "c", "h", "a", "t", "/", "k", "n", "o", "w", "l", "e", "d", "g", "e", "-", "b", "a", "s", "e">>

\* ways a chat call fails in json(): the timer aborted the fetch, the response
\* was not ok (with the text of its body), or fetch itself rejected
Failure(kind, status, text) == [kind |-> kind, status |-> status, text |-> text]

ChatErrors ==
    {Failure("timeout", 0, << >>), Failure("http", 400, << >>),
     Failure("http", 500, << >>), Failure("network", 0, << >>)}

\* the answer of POST /docs/{id}/chat before any chunk is stored
NotReady == Failure("http", 409, <<"N", "o", "t", "R", "e", "a", "d", "y">>)

\* json(): the message of the Error thrown
error_message(f, timeoutMs, path) ==
    IF f.kind = "timeout"
    THEN <<"R", "e", "q", "u", "e", "s", "t", " ", "t", "i", "m", "e", "d", " ", "o", "u", "t", " ", "a", "f", "t", "e", "r", " ">> \o NumberToString(timeoutMs)
            \o <<"m", "s", ":", " ">> \o path
    ELSE IF f.kind = "http"
    THEN NumberToString(f.status) \o <<" ">> \o path \o <<" ">>
            \o (IF f.text # << >> THEN <<"-", " ">> \o f.text ELSE << >>)
    ELSE <<"F", "a", "i", "l", "e", "d", " ", "t", "o", " ", "f", "e", "t", "c", "h">>

\* useState(...) initial values
NewUi ==
    [mode |-> "knowledge_base", messages |-> << >>, loading |-> FALSE,
     uploadedFile |-> NULL, uploadedDocumentId |-> NULL, processingFile |-> FALSE,
     showFallbackPrompt |-> FALSE, pendingQuestion |-> ""]

userMsg(input) == [role |-> "user", content |-> <<input>>]

\* handleFileUpload: "Document ... uploaded and processed successfully!"
systemMsg == [role |-> "assistant", content |-> <<"uploaded">>, source |-> "rag_document"]

\* send: "I couldn't find relevant information in our knowledge base ..."
promptMsg(score) ==
    [role |-> "assistant", content |-> <<"couldn't find, general response instead?">>,
     source |-> "knowledge_base", similarity_score |-> score]

\* send, catch: the text chosen from err.message
errorMessage(message) ==
    IF includes(message, <<"t", "i", "m", "e", "o", "u", "t">>) THEN "The request timed out."
    ELSE IF includes(message, <<"4", "0", "0">>) THEN "There was an issue with your request."
    ELSE IF includes(message, <<"5", "0", "0">>) THEN "There's a server error."
    ELSE "I'm sorry, I encountered an error."

errorMsg(err) == [role |-> "assistant", content |-> <<errorMessage(err)>>]

\* handleFallbackChoice, catch
fallbackErrorMsg == [role |-> "assistant", content |-> <<"I'm sorry, I encountered an error.">>]

\* handleFallbackChoice: the closest match shown with a disclaimer
disclaimerMsg(r) == [r EXCEPT !.content = <<"Here's the closest information I found">> \o r.content]

\* handleFallbackChoice: "I wasn't able to find relevant information ..."
notFoundMsg ==
    [role |-> "assistant", content |-> <<"wasn't able to find">>, source |-> "knowledge_base"]

\* POST /chat/general-response
getGeneralResponse(last) ==
    [role |-> "assistant", content |-> <<"general response: ", last>>, source |-> "general"]

\* POST /docs/{id}/chat: answered from the chunks of that document only; with
\* no chunks stored the call fails with NotReady
chatWithDocument(documentId, chunks, last) ==
    IF chunks = 0
    THEN [error |-> "NotReady"]
    ELSE [error |-> "none",
          reply |-> [role |-> "assistant", content |-> <<"from your document: ", last>>,
                     source |-> "rag_document", citations |-> <<documentId>>]]

\* resetChat()
resetChat(u) ==
    [u EXCEPT !.messages = << >>, !.uploadedFile = NULL, !.uploadedDocumentId = NULL,
              !.showFallbackPrompt = FALSE, !.pendingQuestion = ""]

\* the input and the Send button: disabled={(mode === "document_upload" &&
\* !uploadedDocumentId) || loading}
input_disabled_mut(u) == u.loading

input_disabled(u) ==
    (u.mode = "document_upload" /\ u.uploadedDocumentId = NULL) \/ u.loading

\* send: result.reply.similarity_score && result.reply.similarity_score < 0.7
needs_fallback(r) == r.similarity_score # 0 /\ r.similarity_score < ConfidenceThreshold

\* an api call a handler is awaiting
Await(fn, api, q, documentId) ==
    [fn |-> fn, api |-> api, q |-> q, documentId |-> documentId]

InitChatUI ==
    /\ docs = [d \in DocIds |-> NoDoc]
    /\ resp = NoResponse
    /\ inflight = [i \in 1..MaxInFlight |-> Idle]
    /\ served = [d \in DocIds |-> [gets |-> 0, mods |-> << >>]]
    /\ use_mocks = FALSE
    /\ reply = [role |-> "none"]
    /\ ui = NewUi
    /\ calls = EmptyBag
    /\ log = NoLog
    /\ upl = NULL
    /\ net = NoCall
    /\ hits = NoHits
    /\ emb = NoChunks
    /\ PagesIdle

UiFrame == UNCHANGED <<docs, resp, inflight, served, use_mocks, reply, net, hits, emb,
                       page_vars>>

\* a mode button is clicked: setMode(m); resetChat()
ModeToggle ==
    \E m \in Modes :
        /\ ui' = resetChat([ui EXCEPT !.mode = m])
        /\ UNCHANGED <<calls, log, upl>>
        /\ UiFrame

\* the Remove button of the current document
RemoveDocument ==
    /\ ui.mode = "document_upload" /\ ui.uploadedFile # NULL
    /\ ui' = [ui EXCEPT !.uploadedFile = NULL, !.uploadedDocumentId = NULL,
                        !.messages = << >>]
    /\ UNCHANGED <<calls, log, upl>>
    /\ UiFrame

\* the files the user may choose, by MIME type
FileTypes == {"application/pdf", "text/plain"}

\* handleFileUpload: !file.type.includes('pdf')
is_pdf(type) == type = "application/pdf"

\* handleFileUpload after api.uploadDocumentForChat returned result
upload_succeeded(u, result) ==
    [u EXCEPT !.uploadedFile = "file.pdf", !.uploadedDocumentId = result.id,
              !.messages = <<systemMsg>>, !.processingFile = FALSE]

\* handleFileUpload after api.uploadDocumentForChat threw: alert(errorMessage)
upload_failed_mut(u) == [u EXCEPT !.messages = << >>, !.processingFile = FALSE]

upload_failed(u) == [u EXCEPT !.processingFile = FALSE]

\* handleFileUpload(file) up to its await; a file that is not a PDF is refused
\* with an alert before anything is set
HandleFileUpload ==
    \E type \in FileTypes :
        /\ ui.mode = "document_upload" /\ ui.uploadedFile = NULL /\ ~ui.processingFile
        /\ IF is_pdf(type)
           THEN /\ BagCardinality(calls) < MaxPending
                /\ ui' = [ui EXCEPT !.processingFile = TRUE]
                /\ calls' = calls (+) SetToBag({Await("upload", "uploadDocumentForChat",
                                                      "", NULL)})
                /\ log' = [log EXCEPT !.last = [ev |-> "upload", result |-> "started"]]
           ELSE /\ log' = [log EXCEPT !.last = [ev |-> "upload", result |-> "refused"]]
                /\ UNCHANGED <<ui, calls>>
        /\ UNCHANGED upl
        /\ UiFrame

\* api.uploadDocumentForChat returns {id, chunks_count, total_pages} or throws
UploadReturns ==
    \E c \in BagToSet(calls) :
        /\ c.fn = "upload"
        /\ calls' = calls (-) SetToBag({c})
        /\ \/ \E chunks_count \in 0..MaxChunks :
                /\ upl' = chunks_count
                /\ ui' = upload_succeeded(ui, [id |-> "u1", chunks_count |-> chunks_count])
                /\ log' = [log EXCEPT !.last = [ev |-> "upload", result |-> "ok"]]
           \/ /\ ui' = upload_failed(ui)
              /\ log' = [log EXCEPT !.last = [ev |-> "upload", result |-> "failed"]]
              /\ UNCHANGED upl
        /\ UiFrame

\* send() up to its await: the user message is appended and the question goes
\* to the document path or to the knowledge-base path
Send ==
    \E input \in UiQuestions :
        /\ ~input_disabled(ui)
        /\ BagCardinality(calls) < MaxPending /\ Len(ui.messages) < MaxMsgs
        /\ ui' = [ui EXCEPT !.messages = Append(@, userMsg(input)), !.loading = TRUE]
        /\ LET api == IF ui.mode = "document_upload" /\ ui.uploadedDocumentId # NULL
                      THEN "chatWithDocument" ELSE "chatKnowledgeBase"
           IN /\ calls' = calls (+) SetToBag({Await("send", api, input,
                                                     ui.uploadedDocumentId)})
              /\ log' = [log EXCEPT !.last = [ev |-> "call", api |-> api, from |-> "send",
                                                mode |-> ui.mode, low |-> FALSE]]
        /\ UNCHANGED upl
        /\ UiFrame

\* send() after api.chatWithDocument returned or threw
SendDocumentReturns ==
    \E c \in BagToSet(calls) :
        /\ c.fn = "send" /\ c.api = "chatWithDocument"
        /\ calls' = calls (-) SetToBag({c})
        /\ \/ LET result == chatWithDocument(c.documentId, upl, c.q)
              IN IF result.error = "none"
                 THEN /\ ui' = [ui EXCEPT !.messages = Append(@, result.reply),
                                          !.loading = FALSE]
                      /\ log' = [log EXCEPT !.last =
                                    [ev |-> "doc_reply", chunks |-> upl,
                                     result |-> "answer", shown |-> result.reply.source]]
                 ELSE /\ ui' = [ui EXCEPT !.loading = FALSE,
                                   !.messages = Append(@, errorMsg(
                                       error_message(NotReady, ChatTimeoutMs,
                                                     chat_path(c.api))))]
                      /\ log' = [log EXCEPT !.last =
                                    [ev |-> "doc_reply", chunks |-> upl,
                                     result |-> result.error, shown |-> "error"]]
           \/ \E f \in ChatErrors :
                LET err == error_message(f, ChatTimeoutMs, chat_path(c.api))
                IN /\ ui' = [ui EXCEPT !.messages = Append(@, errorMsg(err)),
                                       !.loading = FALSE]
                   /\ log' = [log EXCEPT !.last = [ev |-> "error", kind |-> f.kind,
                                                     status |-> f.status]]
        /\ UNCHANGED upl
        /\ UiFrame

\* send() after api.chatKnowledgeBase returned or threw
SendKnowledgeBaseReturns ==
    \E c \in BagToSet(calls) :
        /\ c.fn = "send" /\ c.api = "chatKnowledgeBase"
        /\ calls' = calls (-) SetToBag({c})
        /\ \/ \E score \in UiScores :
                LET r == chatKnowledgeBase_live(c.q, score)
                IN IF needs_fallback(r)
                   THEN /\ ui' = [ui EXCEPT !.pendingQuestion = c.q,
                                            !.showFallbackPrompt = TRUE,
                                            !.messages = Append(@, promptMsg(score)),
                                            !.loading = FALSE]
                        /\ log' = [log EXCEPT !.low = @ \cup {c.q},
                                      !.last = [ev |-> "kb_reply", score |-> score,
                                                    appended |-> FALSE, prompted |-> TRUE]]
                   ELSE /\ ui' = [ui EXCEPT !.messages = Append(@, r), !.loading = FALSE]
                        /\ log' = [log EXCEPT !.last =
                                      [ev |-> "kb_reply", score |-> score,
                                       appended |-> TRUE, prompted |-> FALSE]]
           \/ \E f \in ChatErrors :
                LET err == error_message(f, ChatTimeoutMs, chat_path(c.api))
                IN /\ ui' = [ui EXCEPT !.messages = Append(@, errorMsg(err)),
                                       !.loading = FALSE]
                   /\ log' = [log EXCEPT !.last = [ev |-> "error", kind |-> f.kind,
                                                     status |-> f.status]]
        /\ UNCHANGED upl
        /\ UiFrame

\* handleFallbackChoice(useGeneral) up to its await: a button of the prompt
HandleFallbackChoice ==
    \E useGeneral \in BOOLEAN :
        /\ ui.showFallbackPrompt
        /\ BagCardinality(calls) < MaxPending
        /\ ui' = [ui EXCEPT !.showFallbackPrompt = FALSE, !.loading = TRUE]
        /\ LET api == IF useGeneral THEN "getGeneralResponse" ELSE "chatKnowledgeBase"
           IN /\ calls' = calls (+) SetToBag({Await("fallback", api,
                                                     ui.pendingQuestion, NULL)})
              /\ log' = [log EXCEPT !.last = [ev |-> "call", api |-> api, from |-> "fallback",
                                                mode |-> ui.mode,
                                                low |-> ui.pendingQuestion \in log.low]]
        /\ UNCHANGED upl
        /\ UiFrame

\* handleFallbackChoice after its call returned or threw; setPendingQuestion("")
FallbackReturns ==
    \E c \in BagToSet(calls) :
        /\ c.fn = "fallback"
        /\ calls' = calls (-) SetToBag({c})
        /\ \E m \in IF c.api = "getGeneralResponse"
                    THEN {getGeneralResponse(c.q), fallbackErrorMsg}
                    ELSE {IF chatKnowledgeBase_live(c.q, score).content # << >>
                          THEN disclaimerMsg(chatKnowledgeBase_live(c.q, score))
                          ELSE notFoundMsg : score \in UiScores} \cup {fallbackErrorMsg} :
              ui' = [ui EXCEPT !.messages = Append(@, m), !.loading = FALSE,
                               !.pendingQuestion = ""]
        /\ UNCHANGED <<log, upl>>
        /\ UiFrame

NextChatUI ==
    \/ ModeToggle
    \/ RemoveDocument
    \/ HandleFileUpload
    \/ UploadReturns
    \/ Send
    \/ SendDocumentReturns
    \/ SendKnowledgeBaseReturns
    \/ HandleFallbackChoice
    \/ FallbackReturns

SpecChatUI == InitChatUI /\ [][NextChatUI]_vars

(***************************************************************************)
(* The pages and modules below each have a specification of their own, in  *)
(* which the document store and the chat component are idle.               *)
(***************************************************************************)
store_vars == <<docs, resp, inflight, served, use_mocks, reply, emb>>

chat_vars == <<ui, calls, log, upl, net, hits>>

StoreIdle ==
    /\ docs = [d \in DocIds |-> NoDoc]
    /\ resp = NoResponse
    /\ inflight = [i \in 1..MaxInFlight |-> Idle]
    /\ served = [d \in DocIds |-> [gets |-> 0, mods |-> << >>]]
    /\ use_mocks = FALSE
    /\ reply = [role |-> "none"]
    /\ emb = NoChunks

ChatIdle ==
    /\ ui = NoUi
    /\ calls = EmptyBag
    /\ log = NoLog
    /\ upl = NULL
    /\ net = NoCall
    /\ hits = NoHits

(***************************************************************************)
(* The Voice page.  sockets are the WebSockets the page has created, each  *)
(* with its readyState; wsRef is the one the ref holds (0 for null).       *)
(***************************************************************************)
\* WebSockets the page creates before the model stops clicking
MaxSockets == 3

\* messages the server sends before the model stops listening
MaxHeard == 1

SocketIds == 1..MaxSockets

\* useState / useRef initial values
NewVoice ==
    [used |-> TRUE, mounted |-> TRUE, recording |-> FALSE, wsRef |-> 0,
     transcript |-> 0, sockets |-> [s \in SocketIds |-> "none"]]

\* WebSocket.close(): a socket not yet closed starts closing
close(socks, s) ==
    IF s # 0 /\ socks[s] \in {"CONNECTING", "OPEN"}
    THEN [socks EXCEPT ![s] = "CLOSING"]
    ELSE socks

\* toggle()
toggle(v) ==
    IF v.recording
    THEN [v EXCEPT !.sockets = close(v.sockets, v.wsRef), !.recording = FALSE]
    ELSE LET ws == CHOOSE s \in SocketIds :
                      v.sockets[s] = "none" /\ \A t \in 1..(s - 1) : v.sockets[t] # "none"
         IN [v EXCEPT !.sockets[ws] = "CONNECTING", !.wsRef = ws]

\* a setter of a component that is unmounted has no effect
setRecording(v, value) == IF v.mounted THEN [v EXCEPT !.recording = value] ELSE v

InitVoice ==
    /\ StoreIdle /\ ChatIdle
    /\ profile_rows = Unused /\ page = Unused /\ auth = Unused /\ timeouts = Unused
    /\ voice = NewVoice

VoiceFrame == UNCHANGED <<store_vars, chat_vars, profile_rows, page, auth, timeouts>>

\* the Start / Stop Talking button
Toggle ==
    /\ voice.mounted
    /\ voice.recording \/ \E s \in SocketIds : voice.sockets[s] = "none"
    /\ voice' = toggle(voice)
    /\ VoiceFrame

\* ws.onopen
SocketOpens ==
    \E s \in SocketIds :
        /\ voice.sockets[s] = "CONNECTING"
        /\ voice' = setRecording([voice EXCEPT !.sockets[s] = "OPEN"], TRUE)
        /\ VoiceFrame

\* ws.onmessage
SocketMessage ==
    \E s \in SocketIds :
        /\ voice.sockets[s] = "OPEN" /\ voice.mounted
        /\ voice.transcript < MaxHeard
        /\ voice' = [voice EXCEPT !.transcript = @ + 1]
        /\ VoiceFrame

\* ws.onclose: the connection failed, was closed by the server, or finished
\* closing after close()
SocketCloses ==
    \E s \in SocketIds :
        /\ voice.sockets[s] \in {"CONNECTING", "OPEN", "CLOSING"}
        /\ voice' = setRecording([voice EXCEPT !.sockets[s] = "CLOSED"], FALSE)
        /\ VoiceFrame

\* the cleanup of the effect: wsRef.current?.close()
Unmount ==
    /\ voice.mounted
    /\ voice' = [voice EXCEPT !.mounted = FALSE, !.sockets = close(voice.sockets, voice.wsRef)]
    /\ VoiceFrame

NextVoice ==
    \/ Toggle
    \/ SocketOpens
    \/ SocketMessage
    \/ SocketCloses
    \/ Unmount

SpecVoice == InitVoice /\ [][NextVoice]_vars

(***************************************************************************)
(* The Knowledge page, search tab.  searches are the calls of              *)
(* api.knowledge.search that searchDocuments is awaiting; they return in   *)
(* any order.  latest records the search issued last.  The list of pending *)
(* documents shown to an admin is not part of page.                        *)
(***************************************************************************)
\* searches awaited at once
MaxSearches == 2

\* per_page of every search of the page
PerPage == 10

\* what the user types into the search box
PageQueries == {"", "pku"}

\* approved documents that match a query: enough for a second page for the
\* empty query, a single one for "pku"
matching(q) == IF q = "" THEN PerPage + 1 ELSE 1

\* GET /knowledge/search?q=&page=&per_page=: the page of results asked for
search_page(q, p) ==
    [items |-> <<q, p>>, page |-> p, total |-> matching(q),
     total_pages |-> (matching(q) + PerPage - 1) \div PerPage]

SearchCall(q, p) == [q |-> q, page |-> p]

\* searchDocuments(page) up to its await
searchDocuments(k, q, p) ==
    [k EXCEPT !.loading = TRUE, !.searches = @ \cup {SearchCall(q, p)},
              !.latest = [q |-> q, page |-> p, failed |-> FALSE]]

\* searchDocuments after api.knowledge.search returned response
show(k, call, response) ==
    [k EXCEPT !.documents = response.items, !.currentPage = response.page,
              !.totalPages = response.total_pages, !.total = response.total,
              !.loading = FALSE]

\* the page after its first render: the effects have called searchDocuments()
\* and armed the debounce timer
NewPage ==
    searchDocuments(
        [used |-> TRUE, searchQuery |-> "", documents |-> << >>, currentPage |-> 1,
         totalPages |-> 1, total |-> 0, loading |-> FALSE, debounce |-> TRUE,
         searches |-> {}, approving |-> {},
         latest |-> [q |-> "", page |-> 1, failed |-> FALSE]],
        "", 1)

InitKnowledge ==
    /\ StoreIdle /\ ChatIdle
    /\ profile_rows = Unused /\ voice = Unused /\ auth = Unused /\ timeouts = Unused
    /\ page = NewPage

KnowledgeFrame == UNCHANGED <<store_vars, chat_vars, profile_rows, voice, auth, timeouts>>

\* the search box changes: the effect clears the timer and arms a new one
SetSearchQuery ==
    \E q \in PageQueries :
        /\ q # page.searchQuery
        /\ page' = [page EXCEPT !.searchQuery = q, !.debounce = TRUE]
        /\ KnowledgeFrame

\* 300 ms after the last change: searchDocuments(1)
DebounceFires ==
    /\ page.debounce
    /\ Cardinality(page.searches) < MaxSearches
    /\ page' = searchDocuments([page EXCEPT !.debounce = FALSE], page.searchQuery, 1)
    /\ KnowledgeFrame

\* the previous / next buttons, shown with the results when there are pages
Paginate ==
    \E p \in {page.currentPage - 1, page.currentPage + 1} :
        /\ ~page.loading /\ page.totalPages > 1
        /\ p >= 1 /\ p <= page.totalPages
        /\ Cardinality(page.searches) < MaxSearches
        /\ page' = searchDocuments(page, page.searchQuery, p)
        /\ KnowledgeFrame

\* handleModerate(docId, "approved") up to its await
ApproveClick ==
    /\ page.approving = {}
    /\ page' = [page EXCEPT !.approving = {SearchCall(page.searchQuery, page.currentPage)}]
    /\ KnowledgeFrame

\* handleModerate after api.knowledge.moderate returned (searchDocuments of
\* the render of the click) or threw
ApproveReturns ==
    \E c \in page.approving :
        /\ \/ /\ Cardinality(page.searches) < MaxSearches
              /\ page' = searchDocuments([page EXCEPT !.approving = {}], c.q, c.page)
           \/ page' = [page EXCEPT !.approving = {}]
        /\ KnowledgeFrame

\* api.knowledge.search returns or throws
SearchReturns ==
    \E c \in page.searches :
        LET k == [page EXCEPT !.searches = @ \ {c}]
        IN /\ \/ page' = show(k, c, search_page(c.q, c.page))
              \/ page' = [k EXCEPT !.loading = FALSE,
                                   !.latest.failed = @ \/ (c = SearchCall(k.latest.q,
                                                                           k.latest.page))]
           /\ KnowledgeFrame

NextKnowledge ==
    \/ SetSearchQuery
    \/ DebounceFires
    \/ Paginate
    \/ ApproveClick
    \/ ApproveReturns
    \/ SearchReturns

SpecKnowledge == InitKnowledge /\ [][NextKnowledge]_vars

(***************************************************************************)
(* The profiles table under row-level security, as clients reach it with   *)
(* their own credential, in the two schemas of the repository:             *)
(*   "README.md"     table with roles guest, member, admin; policies view  *)
(*                   own, update own, admins view all; a trigger mirrors   *)
(*                   new users into profiles as member;                    *)
(*   "policies.sql"  table with roles member, admin (schema.sql); policies *)
(*                   read own, insert own.                                 *)
(* With row-level security enabled, a command no policy covers is denied.  *)
(***************************************************************************)
Schemas == {"README.md", "policies.sql"}

\* rows of auth.users: a member, an admin, and a user who has no profile yet
AuthIds == Uids \cup {"n1"}

\* check (role in (...))
role_check(schema) ==
    IF schema = "README.md" THEN {"guest", "member", "admin"} ELSE {"member", "admin"}

AnyRole == {"guest", "member", "admin"}

\* "Users can view their own profile" / "read own profile": auth.uid() = id
read_own_profile(uid, id) == uid # NULL /\ uid = id

\* "Admins can view all profiles" (README.md only)
admins_view_all(t, uid) ==
    t.schema = "README.md" /\ uid \in AuthIds /\ t.rows[uid] = "admin"

\* "insert own profile" (policies.sql only): with check (auth.uid() = id)
insert_own_profile(t, uid, id) == t.schema = "policies.sql" /\ uid # NULL /\ uid = id

\* "Users can update their own profile" (README.md only): using (auth.uid() =
\* id), which is also the check on the new row; no column is excluded
update_own_profile(t, uid, id) == t.schema = "README.md" /\ uid # NULL /\ uid = id

ProfileOp(op, caller, id, role, ok) ==
    [op |-> op, caller |-> caller, id |-> id, role |-> role, ok |-> ok]

NewProfiles(schema) ==
    [used |-> TRUE, schema |-> schema,
     rows |-> [u \in AuthIds |-> IF u \in Uids THEN profiles[u] ELSE "none"],
     last |-> ProfileOp("none", NULL, NULL, "none", FALSE)]

InitProfiles ==
    /\ StoreIdle /\ ChatIdle
    /\ page = Unused /\ voice = Unused /\ auth = Unused /\ timeouts = Unused
    /\ \E schema \in Schemas : profile_rows = NewProfiles(schema)

ProfilesFrame == UNCHANGED <<store_vars, chat_vars, page, voice, auth, timeouts>>

\* handle_new_user(): the trigger on auth.users, security definer
HandleNewUser ==
    \E id \in AuthIds :
        /\ profile_rows.schema = "README.md" /\ profile_rows.rows[id] = "none"
        /\ profile_rows' = [profile_rows EXCEPT !.rows[id] = "member",
                                !.last = ProfileOp("trigger", NULL, id, "member", TRUE)]
        /\ ProfilesFrame

\* select * from profiles
RlsSelectProfiles ==
    \E caller \in AuthIds \cup {NULL}, id \in AuthIds :
        LET ok == /\ profile_rows.rows[id] # "none"
                  /\ read_own_profile(caller, id) \/ admins_view_all(profile_rows, caller)
        IN /\ profile_rows' = [profile_rows EXCEPT
                                  !.last = ProfileOp("select", caller, id,
                                                     IF ok THEN profile_rows.rows[id]
                                                     ELSE "none", ok)]
           /\ ProfilesFrame

\* insert into profiles (id, email, role) values (...)
RlsInsertProfile ==
    \E caller \in AuthIds \cup {NULL}, id \in AuthIds, role \in AnyRole :
        LET ok == /\ insert_own_profile(profile_rows, caller, id)
                  /\ profile_rows.rows[id] = "none"
                  /\ role \in role_check(profile_rows.schema)
        IN /\ profile_rows' = [profile_rows EXCEPT
                                  !.rows[id] = IF ok THEN role ELSE @,
                                  !.last = ProfileOp("insert", caller, id, role, ok)]
           /\ ProfilesFrame

\* update profiles set role = ... where id = ...
RlsUpdateProfile ==
    \E caller \in AuthIds \cup {NULL}, id \in AuthIds, role \in AnyRole :
        LET ok == /\ update_own_profile(profile_rows, caller, id)
                  /\ profile_rows.rows[id] # "none"
                  /\ role \in role_check(profile_rows.schema)
        IN /\ profile_rows' = [profile_rows EXCEPT
                                  !.rows[id] = IF ok THEN role ELSE @,
                                  !.last = ProfileOp("update", caller, id, role, ok)]
           /\ ProfilesFrame

\* delete from profiles where id = ...: no policy in either schema
RlsDeleteProfile ==
    \E caller \in AuthIds \cup {NULL}, id \in AuthIds :
        /\ profile_rows' = [profile_rows EXCEPT
                               !.last = ProfileOp("delete", caller, id, "none", FALSE)]
        /\ ProfilesFrame

NextProfiles ==
    \/ HandleNewUser
    \/ RlsSelectProfiles
    \/ RlsInsertProfile
    \/ RlsUpdateProfile
    \/ RlsDeleteProfile

SpecProfiles == InitProfiles /\ [][NextProfiles]_vars

(***************************************************************************)
(* The token cache of api.ts (part_010).  session is the session the       *)
(* Supabase client holds and storage the access token it keeps in          *)
(* localStorage under its key: the client writes it on sign-in and refresh *)
(* and removes it on sign-out before it notifies the listeners.  age is    *)
(* the time since lastTokenTime, in minutes.  ended are the tokens of the  *)
(* sessions that have ended, cleared tells that the listener was called    *)
(* without a session and nothing has been cached since, and last is what   *)
(* authHeaders() returned to the most recent request.                      *)
(***************************************************************************)
\* minutes after which the model stops the clock
MaxAge == 6

\* 5 * 60 * 1000 ms, in minutes
TokenTtl == 5

Tokens == {"t1", "t2"}

NoHeaders == [token |-> NULL, from |-> "none", age |-> 0, cleared |-> FALSE, ended |-> FALSE]

NewAuth ==
    [used |-> TRUE, session |-> NULL, storage |-> NULL, cachedToken |-> NULL, age |-> 0,
     ended |-> {}, cleared |-> FALSE, signingOut |-> FALSE, last |-> NoHeaders]

\* authHeaders(): the cached token while it is recent, else the token in
\* localStorage (which is then cached), else no Authorization header
authHeaders(a) ==
    IF a.cachedToken # NULL /\ a.age < TokenTtl
    THEN [a EXCEPT !.last = [token |-> a.cachedToken, from |-> "cache", age |-> a.age,
                             cleared |-> a.cleared, ended |-> a.cachedToken \in a.ended]]
    ELSE IF a.storage # NULL
    THEN [a EXCEPT !.cachedToken = a.storage, !.age = 0, !.cleared = FALSE,
                   !.last = [token |-> a.storage, from |-> "storage", age |-> 0,
                             cleared |-> a.cleared, ended |-> a.storage \in a.ended]]
    ELSE [a EXCEPT !.last = [NoHeaders EXCEPT !.cleared = a.cleared]]

\* the listener of supabase.auth.onAuthStateChange
onAuthStateChange_mut(a, session) ==
    IF session # NULL
    THEN [a EXCEPT !.cachedToken = session, !.age = 0, !.cleared = FALSE]
    ELSE [a EXCEPT !.cleared = TRUE]

onAuthStateChange(a, session) ==
    IF session # NULL
    THEN [a EXCEPT !.cachedToken = session, !.age = 0, !.cleared = FALSE]
    ELSE [a EXCEPT !.cachedToken = NULL, !.age = 0, !.cleared = TRUE]

\* the Supabase client ends the session: the stored token is removed, then the
\* listeners are notified without a session
session_ends(a) ==
    onAuthStateChange(
        [a EXCEPT !.session = NULL, !.storage = NULL,
                  !.ended = IF a.session # NULL THEN @ \cup {a.session} ELSE @],
        NULL)

InitAuth ==
    /\ StoreIdle /\ ChatIdle
    /\ profile_rows = Unused /\ page = Unused /\ voice = Unused /\ timeouts = Unused
    /\ auth = NewAuth

AuthFrame == UNCHANGED <<store_vars, chat_vars, profile_rows, page, voice, timeouts>>

\* sign-in, or a refresh of the access token: a token not used before
SessionStarts ==
    \E t \in Tokens :
        /\ t \notin auth.ended /\ t # auth.session
        /\ auth' = onAuthStateChange(
                       [auth EXCEPT !.session = t, !.storage = t,
                                    !.ended = IF auth.session # NULL
                                              THEN @ \cup {auth.session} ELSE @],
                       t)
        /\ AuthFrame

\* the user signs out
SignOut ==
    /\ auth.session # NULL
    /\ auth' = session_ends(auth)
    /\ AuthFrame

\* json() calls authHeaders() for a request
JsonAuthHeaders ==
    /\ auth' = authHeaders(auth)
    /\ AuthFrame

\* json() receives 401 for a request: await supabase.auth.signOut()
JsonUnauthorized ==
    /\ auth.last # NoHeaders
    /\ ~auth.signingOut
    /\ auth' = [auth EXCEPT !.signingOut = TRUE]
    /\ AuthFrame

\* supabase.auth.signOut() of the 401 branch ends the session, or fails and
\* leaves it
ForcedSignOutAnswers ==
    /\ auth.signingOut
    /\ \/ auth' = session_ends([auth EXCEPT !.signingOut = FALSE])
       \/ auth' = [auth EXCEPT !.signingOut = FALSE]
    /\ AuthFrame

\* a minute goes by
Minute ==
    /\ auth.cachedToken # NULL /\ auth.age < MaxAge
    /\ auth' = [auth EXCEPT !.age = @ + 1]
    /\ AuthFrame

NextAuth ==
    \/ SessionStarts
    \/ SignOut
    \/ JsonAuthHeaders
    \/ JsonUnauthorized
    \/ ForcedSignOutAnswers
    \/ Minute

SpecAuth == InitAuth /\ [][NextAuth]_vars

(***************************************************************************)
(* The timeout counters of api.ts (part_010) with several calls of json()  *)
(* in progress.  idle is the time since lastSuccessTime in units of 10 s.  *)
(* fired counts the timer callbacks that ran since a response was last     *)
(* received (or since the module was loaded), quiet is the time since      *)
(* then, and event tells what happened last.                               *)
(***************************************************************************)
\* calls of json() in progress at once
MaxRequests == 2

\* units of 10 s after which the model stops the clock
MaxIdle == 4

\* Date.now() - lastSuccessTime > 30000, in units of 10 s
ReloadAfter == 3

RequestIds == 1..MaxRequests

NoRequest == [phase |-> "none", timer |-> "unset"]

\* let consecutiveTimeouts = 0; let lastSuccessTime = Date.now()
NewTimeouts ==
    [used |-> TRUE, consecutiveTimeouts |-> 0, idle |-> 0, reload |-> FALSE,
     requests |-> [r \in RequestIds |-> NoRequest],
     fired |-> 0, quiet |-> 0, event |-> [kind |-> "load", reload |-> FALSE]]

\* json(), after the fetch resolved: the counter and lastSuccessTime are reset
response_received_mut(t, status) ==
    IF status = 200 THEN [t EXCEPT !.consecutiveTimeouts = 0, !.idle = 0] ELSE t

response_received(t, status) == [t EXCEPT !.consecutiveTimeouts = 0, !.idle = 0]

\* the callback of the timer of json(), up to controller.abort()
timer_callback(t) ==
    LET n == t.consecutiveTimeouts + 1
        schedule == n >= 2 /\ t.idle > ReloadAfter
    IN [t EXCEPT !.consecutiveTimeouts = n, !.reload = @ \/ schedule,
                 !.event = [kind |-> "timeout", reload |-> schedule]]

\* json() returns or throws: finally { clearTimeout(timeout) }
finally(t, r) == [t EXCEPT !.requests[r] = NoRequest]

InitTimeouts ==
    /\ StoreIdle /\ ChatIdle
    /\ profile_rows = Unused /\ page = Unused /\ voice = Unused /\ auth = Unused
    /\ timeouts = NewTimeouts

TimeoutsFrame == UNCHANGED <<store_vars, chat_vars, profile_rows, page, voice, auth>>

\* json() is called: the timer is set and the fetch issued
JsonStarts ==
    \E r \in RequestIds :
        /\ timeouts.requests[r] = NoRequest
        /\ timeouts.consecutiveTimeouts < MaxTimeouts
        /\ timeouts' = [timeouts EXCEPT
                           !.requests[r] = [phase |-> "fetch", timer |-> "armed"],
                           !.event = [kind |-> "start", reload |-> FALSE]]
        /\ TimeoutsFrame

\* the fetch of a call resolves with a response: 401 goes on to signOut, any
\* other status that is not ok to res.text()
ResponseReceived ==
    \E r \in RequestIds, status \in HttpStatuses :
        /\ timeouts.requests[r].phase = "fetch"
        /\ LET t == [response_received(timeouts, status) EXCEPT
                        !.fired = 0, !.quiet = 0,
                        !.event = [kind |-> "response", reload |-> FALSE]]
           IN timeouts' = IF status = 200 THEN finally(t, r)
                          ELSE [t EXCEPT !.requests[r].phase =
                                            IF status = 401 THEN "signOut" ELSE "text"]
        /\ TimeoutsFrame

\* supabase.auth.signOut() or res.text() answers and json() throws
AwaitAnswers ==
    \E r \in RequestIds :
        /\ timeouts.requests[r].phase \in {"signOut", "text"}
        /\ timeouts' = [finally(timeouts, r) EXCEPT
                           !.event = [kind |-> "throw", reload |-> FALSE]]
        /\ TimeoutsFrame

\* the fetch of a call rejects without a response
FetchFails ==
    \E r \in RequestIds :
        /\ timeouts.requests[r].phase = "fetch"
        /\ timeouts' = [finally(timeouts, r) EXCEPT
                           !.event = [kind |-> "throw", reload |-> FALSE]]
        /\ TimeoutsFrame

\* the timer of a call elapses: the callback counts, may schedule the reload
\* and aborts; a fetch or a body read in progress rejects, signOut does not
TimeoutFires ==
    \E r \in RequestIds :
        /\ timeouts.requests[r].timer = "armed"
        /\ LET t == [timer_callback(timeouts) EXCEPT
                        !.fired = IF @ < MaxTimeouts THEN @ + 1 ELSE @]
           IN timeouts' = IF timeouts.requests[r].phase \in {"fetch", "text"}
                          THEN finally(t, r)
                          ELSE [t EXCEPT !.requests[r].timer = "fired"]
        /\ TimeoutsFrame

\* 10 s go by
TenSeconds ==
    /\ timeouts.idle < MaxIdle
    /\ timeouts' = [timeouts EXCEPT !.idle = @ + 1, !.quiet = @ + 1]
    /\ TimeoutsFrame

\* window.location.reload(), 500 ms after it was scheduled: the module is
\* loaded again
PageReloads ==
    /\ timeouts.reload
    /\ timeouts' = NewTimeouts
    /\ TimeoutsFrame

NextTimeouts ==
    \/ JsonStarts
    \/ ResponseReceived
    \/ AwaitAnswers
    \/ FetchFails
    \/ TimeoutFires
    \/ TenSeconds
    \/ PageReloads

SpecTimeouts == InitTimeouts /\ [][NextTimeouts]_vars

(***************************************************************************)
(* Properties                                                              *)
(***************************************************************************)
\* the role of an identity as the profiles table records it
RoleOf(uid) == IF uid \in Uids THEN profiles[uid] ELSE "guest"

\* which queries are about which title: the empty query is about every document,
\* "pku" about the PKU title, "diet" about the diet title, the stop word about none
QueryIsAbout(q, title) ==
    \/ q = << >>
    \/ (q = <<"pku">> /\ title = <<"pku">>)
    \/ (q = <<"diet">> /\ title = <<"the", "diet">>)

\* operations that hand documents out
ReadOps == {"search", "get", "listPending", "listPopular", "select"}

\* C1: a document is returned by search, for the empty query or a query that
\* matches it and for any caller, if and only if its status is approved; a query
\* that does not match returns it never.
C1_SearchIffApproved ==
    /\ \A caller \in Callers, q \in Queries, d \in DocIds :
          d \in search(docs, caller, q).rows
            <=> (d \in Rows(docs) /\ docs[d].status = "approved"
                 /\ QueryIsAbout(q, docs[d].title))
    /\ resp.op = "search" =>
          \A d \in resp.rows : d \in Rows(docs) /\ docs[d].status = "approved"

\* C1 witness: after a moderate(approved) a search returned the approved
\* document and not the one still pending
C1_Witness ==
    /\ resp.op = "search" /\ resp.rows = {"d1"}
    /\ docs["d1"] # NoDoc /\ docs["d1"].status = "approved" /\ docs["d1"].approved_by = "a1"
    /\ docs["d2"] # NoDoc /\ docs["d2"].status = "pending"

\* C2: once a document's status is approved or rejected, no step changes it.
C2_TerminalStatusIsFinal ==
    [][\A d \in DocIds :
          (docs[d] # NoDoc /\ docs[d].status \in {"approved", "rejected"})
             => (docs'[d] # NoDoc /\ docs'[d].status = docs[d].status)]_vars

\* C3: a moderate call by an admin on a document that has already been moderated
\* (its status is no longer pending) answers InvalidState and leaves the table,
\* so the status and the approval fields, as they were.
C3_ModerateTransitionOnce ==
    [][(/\ resp'.op = "moderate"
        /\ RoleOf(resp'.caller) = "admin"
        /\ resp'.doc \in Rows(docs)
        /\ docs[resp'.doc].status # "pending")
         => (resp'.result = "InvalidState" /\ docs' = docs)]_vars

\* C3 witness: the second call (a reject) on a document the first call approved
C3_Witness ==
    /\ resp.op = "moderate" /\ resp.caller = "a1" /\ resp.result = "InvalidState"
    /\ docs[resp.doc] # NoDoc
    /\ docs[resp.doc].status = "approved"
    /\ docs[resp.doc].approved_by = "a1" /\ docs[resp.doc].approved_at = "ts"

\* the moderate calls of admins on d that have been answered and not yet received
AnsweredModerations(d) ==
    {i \in 1..MaxInFlight : /\ inflight[i].op = "moderate" /\ inflight[i].doc = d
                            /\ inflight[i].stage = "done"
                            /\ RoleOf(inflight[i].caller) = "admin"}

\* C4: of the moderate calls in flight against the same pending document exactly
\* one succeeds, whatever the order in which the server handles them, and the
\* document's status is the one that call set.
C4_OneModerationWins ==
    \A d \in DocIds :
        /\ Len(served[d].mods) <= 1
        /\ \A i \in AnsweredModerations(d) :
              /\ Len(served[d].mods) = 1
              /\ docs[d].status = served[d].mods[1]
              /\ inflight[i].result \in {"ok", "InvalidState"}
              /\ inflight[i].result = "ok" => inflight[i].action = served[d].mods[1]
        /\ \A i, j \in AnsweredModerations(d) :
              (inflight[i].result = "ok" /\ inflight[j].result = "ok") => i = j

\* C4 witness: an Approve and a Reject, both sent while the document was pending,
\* have both been answered: one ok, one InvalidState
C4_Witness ==
    \E i, j \in 1..MaxInFlight :
        /\ inflight[i].op = "moderate" /\ inflight[j].op = "moderate"
        /\ inflight[i].doc = inflight[j].doc
        /\ inflight[i].caller = "a1" /\ inflight[j].caller = "a1"
        /\ inflight[i].action = "approved" /\ inflight[j].action = "rejected"
        /\ inflight[i].result = "InvalidState" /\ inflight[j].result = "ok"
        /\ docs[inflight[i].doc].status = "rejected"

OnlyAdminChangesStatus ==
    \A d \in DocIds :
        (docs[d] # NoDoc /\ docs'[d] # NoDoc /\ docs'[d].status # docs[d].status)
           => RoleOf(resp'.caller) = "admin"

\* C6 as stated: every document a guest or member obtains from a read is
\* approved, and only an admin approves or rejects.
C6_OnlyAdminReadsUnapproved ==
    [][/\ (resp'.op \in ReadOps /\ RoleOf(resp'.caller) # "admin")
            => \A d \in resp'.rows : docs'[d].status = "approved"
       /\ OnlyAdminChangesStatus]_vars

\* C6 amended: every document a guest or member obtains from a read is approved
\* or is the caller's own (the caller is its author), and only an admin approves
\* or rejects.
C6_OnlyAdminOrAuthorReadsUnapproved ==
    [][/\ (resp'.op \in ReadOps /\ RoleOf(resp'.caller) # "admin")
            => \A d \in resp'.rows :
                  \/ docs'[d].status = "approved"
                  \/ (resp'.caller # NULL /\ docs'[d].author = resp'.caller)
       /\ OnlyAdminChangesStatus]_vars

\* C6 witness: a member selected the table while two documents were pending and
\* got the own one only
C6_Witness ==
    /\ resp.op = "select" /\ resp.caller = "m1" /\ resp.rows = {"d1"}
    /\ docs["d1"] # NoDoc /\ docs["d1"].status = "pending" /\ docs["d1"].author = "m1"
    /\ docs["d2"] # NoDoc /\ docs["d2"].status = "pending" /\ docs["d2"].author = NULL

\* C7: every document a guest or member creates starts pending with view_count 0.
C7_CreatedPending ==
    [][\A d \in DocIds :
          (docs[d] = NoDoc /\ docs'[d] # NoDoc /\ RoleOf(resp'.caller) # "admin")
             => (docs'[d].status = "pending" /\ docs'[d].view_count = 0)]_vars

\* C8: the view_count of a document is the number of permitted gets of it that
\* have completed, however the handlers of concurrent gets interleave.
C8_NoLostViewCount ==
    \A d \in Rows(docs) : docs[d].view_count = served[d].gets

\* C8 witness: two gets of one document both read view_count 0 before either
\* incremented, both completed, and the counter is 2
C8_Witness ==
    \E i, j \in 1..MaxInFlight :
        /\ i # j
        /\ inflight[i].op = "get" /\ inflight[j].op = "get"
        /\ inflight[i].doc = inflight[j].doc
        /\ inflight[i].result = "ok" /\ inflight[j].result = "ok"
        /\ inflight[i].seen = 0 /\ inflight[j].seen = 0
        /\ docs[inflight[i].doc].view_count = 2

\* C9: view_count changes only by a permitted get of that document, which
\* raises it by 1; it never decreases.
C9_ViewCountOnlyByGet ==
    [][\A d \in DocIds :
          (docs[d] # NoDoc /\ docs'[d] # NoDoc /\ docs'[d].view_count # docs[d].view_count)
             => (/\ resp'.op = "get" /\ resp'.doc = d /\ resp'.result = "ok"
                 /\ docs'[d].view_count = docs[d].view_count + 1)]_vars

\* C10: a knowledge-base reply with score >= 0.7 has content, one with score < 0.7
\* has empty content and no citations, mock or live.
C10_ScoreDecidesContent ==
    reply.role = "assistant" =>
        /\ reply.similarity_score >= ConfidenceThreshold => reply.content # << >>
        /\ reply.similarity_score < ConfidenceThreshold =>
              (reply.content = << >> /\ reply.citations = << >>)

\* C19: a successful approve records approved_at and sets approved_by to the
\* authenticated caller; every other step (a reject, a failed moderate, any
\* other operation) leaves approved_at and approved_by of an existing document
\* as they were, and a new document has them unset.
C19_ApprovalStamp ==
    [][\A d \in DocIds :
          IF /\ resp'.op = "moderate" /\ resp'.doc = d /\ resp'.result = "ok"
             /\ docs'[d].status = "approved"
          THEN docs'[d].approved_at # NULL /\ docs'[d].approved_by = resp'.caller
          ELSE docs'[d] # NoDoc =>
                 IF docs[d] = NoDoc
                 THEN docs'[d].approved_at = NULL /\ docs'[d].approved_by = NULL
                 ELSE /\ docs'[d].approved_at = docs[d].approved_at
                      /\ docs'[d].approved_by = docs[d].approved_by]_vars

\* the operations that hand chunks out
ChunkReadOps == {"select_embeddings", "kb_chat"}

\* C16: every chunk handed out by a read of the embeddings table, or cited by
\* a knowledge-base chat, belongs to a document whose status is approved.
C16_OnlyApprovedChunks ==
    resp.op \in ChunkReadOps =>
        \A c \in resp.rows :
            /\ emb[c] # NoChunk
            /\ emb[c].document_id \in Rows(docs)
            /\ docs[emb[c].document_id].status = "approved"

\* C16 witness: a member who is the author of a pending document with a chunk
\* read the table and got only the chunk of the approved document
C16_Witness ==
    /\ resp.op = "select_embeddings" /\ resp.caller = "m1" /\ resp.rows = {"c1"}
    /\ emb["c1"] # NoChunk /\ emb["c2"] # NoChunk
    /\ docs[emb["c1"].document_id].status = "approved"
    /\ docs[emb["c2"].document_id].status = "pending"
    /\ docs[emb["c2"].document_id].author = "m1"

C15_SearchOrder ==
    hits # NoHits =>
        /\ \A i, j \in 1..Len(hits.items) :
              i < j =>
                LET a == hits.items[i]
                    b == hits.items[j]
                    ra == ts_rank(docs[a].title, plainto_tsquery(hits.q))
                    rb == ts_rank(docs[b].title, plainto_tsquery(hits.q))
                IN ra > rb \/ (ra = rb /\ docs[a].created_at >= docs[b].created_at)
        /\ hits.q = << >> =>
              {hits.items[i] : i \in 1..Len(hits.items)}
                 = {d \in Rows(docs) : docs[d].status = "approved"}
        /\ hits.total = Len(hits.items)
        /\ Rows(docs) = {} => (hits.items = << >> /\ hits.total = 0)

\* C15 witness: two approved documents that match the query equally, the newer
\* one first
C15_Witness ==
    /\ hits.q = <<"pku">> /\ hits.items = <<"d2", "d1">>
    /\ docs["d1"].title = docs["d2"].title
    /\ docs["d2"].created_at > docs["d1"].created_at

\* C13: a call that got 401 on its first attempt and did not time out has
\* refreshed the credentials and sent the request once more; no call sends more
\* than two attempts; a second attempt follows a 401 only; a retry that is not
\* answered 200 is reported as an error.
C13_RetryOnceOn401 ==
    /\ net.sent <= 2
    /\ net.sent = 2 => (net.first_status = 401 /\ net.refreshed)
    /\ (net.phase = "settled" /\ net.first_status = 401 /\ net.outcome # "timeout")
          => net.sent = 2
    /\ (net.phase = "settled" /\ net.sent = 2 /\ net.status # 200)
          => net.outcome \in {"http", "timeout", "network"}

\* C14: every call of json() settles, and when it has settled its timer is not
\* left running.
C14_EveryCallSettles ==
    /\ (net.phase \in Awaiting) ~> (net.phase = "settled")
    /\ [](net.phase = "settled" => net.timer # "armed")

IsPrefix(s, t) == Len(s) <= Len(t) /\ SubSeq(t, 1, Len(s)) = s

\* C17: every step other than a mode switch or Remove (which end the session)
\* leaves the messages of the transcript in place and at most appends to them.
C17_TranscriptAppendOnly ==
    [][(ModeToggle \/ RemoveDocument) \/ IsPrefix(ui.messages, ui'.messages)]_vars

\* C18: send handles a knowledge-base reply with score below 0.7 by raising the
\* prompt without appending the reply, and one with score >= 0.7 by appending
\* the reply without raising the prompt.
C18_LowScoreRaisesPrompt ==
    log.last.ev = "kb_reply" =>
        /\ log.last.score < ConfidenceThreshold
              => (~log.last.appended /\ log.last.prompted)
        /\ log.last.score >= ConfidenceThreshold
              => (log.last.appended /\ ~log.last.prompted)

\* C21: an upload that is refused or fails changes nothing of the session but
\* processingFile, which is false afterwards; uploadedDocumentId is bound only
\* by a successful upload, to the returned id, and the transcript is then the
\* confirmation message alone.
C21_FailedUploadKeepsSession ==
    [][/\ (/\ log'.last.ev = "upload"
           /\ log' # log \/ \E c \in BagToSet(calls) : c.fn = "upload" /\ ~BagIn(c, calls')
           /\ log'.last.result \in {"refused", "failed"})
            => /\ ui'.uploadedFile = ui.uploadedFile
               /\ ui'.uploadedDocumentId = ui.uploadedDocumentId
               /\ ui'.messages = ui.messages
               /\ ~ui'.processingFile
       /\ (ui'.uploadedDocumentId # NULL /\ ui'.uploadedDocumentId # ui.uploadedDocumentId)
            => /\ log'.last = [ev |-> "upload", result |-> "ok"]
               /\ ui'.uploadedDocumentId = "u1"
               /\ ui'.messages = <<systemMsg>>]_vars

\* C21 witness: an upload started in document mode failed after the user had
\* switched to the knowledge base and asked a question; the transcript is kept
C21_Witness ==
    /\ log.last = [ev |-> "upload", result |-> "failed"]
    /\ ui.mode = "knowledge_base" /\ ~ui.processingFile
    /\ ui.uploadedDocumentId = NULL
    /\ Len(ui.messages) = 2 /\ ui.messages[1] = userMsg("q1")

\* the chat requests (send or fallback choice) that are in flight
ChatCallsInFlight ==
    LET chat == {c \in BagToSet(calls) : c.fn \in {"send", "fallback"}}
    IN BagCardinality([c \in chat |-> calls[c]])

\* C23: loading is true exactly while a chat request (send or fallback choice)
\* is in flight, and at most one chat request is in flight at a time.
C23_LoadingIffInFlight ==
    /\ ui.loading <=> ChatCallsInFlight >= 1
    /\ ChatCallsInFlight <= 1

\* C24: while the fallback prompt is visible, pendingQuestion is the non-empty
\* text of a question whose knowledge-base reply was low-confidence.
C24_PromptHasQuestion ==
    ui.showFallbackPrompt => (ui.pendingQuestion # "" /\ ui.pendingQuestion \in log.low)

\* the mode in which send() issued the call c
ModeAtSend(c) ==
    IF c.api = "chatWithDocument" THEN "document_upload" ELSE "knowledge_base"

\* C25: a reply to a send whose session has ended since (the component is in
\* the other mode, or bound to another document or to none) is not appended
\* to the transcript.
C25_NoReplyAcrossSessions ==
    [][\A c \in BagToSet(calls) :
          (/\ c.fn = "send" /\ CopiesIn(c, calls') < CopiesIn(c, calls)
           /\ ui.mode # ModeAtSend(c) \/ ui.uploadedDocumentId # c.documentId)
             => ui'.messages = ui.messages]_vars

\* C30: the message appended for a failed send matches the failure: a time-out
\* of the request layer gives the timed-out message, a 400 response the
\* bad-request message, a 500 response the server-error message, anything else
\* the generic message; one message is appended per failed request.
C30_ErrorMessageMatchesFailure ==
    [][\A c \in BagToSet(calls) :
          (/\ c.fn = "send" /\ CopiesIn(c, calls') < CopiesIn(c, calls)
           /\ log'.last.ev = "error")
             => /\ Len(ui'.messages) = Len(ui.messages) + 1
                /\ ui'.messages[Len(ui'.messages)].content =
                      IF log'.last.kind = "timeout" THEN <<"The request timed out.">>
                      ELSE IF log'.last.status = 400
                      THEN <<"There was an issue with your request.">>
                      ELSE IF log'.last.status = 500 THEN <<"There's a server error.">>
                      ELSE <<"I'm sorry, I encountered an error.">>]_vars

\* C29: at most one WebSocket of the voice page is connecting or open, and
\* recording is true exactly when the socket held in wsRef is open.
C29_OneSocketAndRecording ==
    voice # Unused =>
        /\ Cardinality({s \in SocketIds : voice.sockets[s] \in {"CONNECTING", "OPEN"}}) <= 1
        /\ voice.recording <=> (voice.wsRef # 0 /\ voice.sockets[voice.wsRef] = "OPEN")

\* C26: once no search of the knowledge page is outstanding, the documents,
\* page, total and page count shown are those of the search issued last.
C26_LatestSearchShown ==
    (/\ page # Unused
     /\ page.searches = {} /\ ~page.debounce /\ page.approving = {}
     /\ ~page.latest.failed)
       => LET response == search_page(page.latest.q, page.latest.page)
          IN /\ page.documents = response.items
             /\ page.currentPage = response.page
             /\ page.total = response.total
             /\ page.totalPages = response.total_pages

\* C22: no step in which an identity that is not an admin inserts or updates
\* a profile leaves that identity's own profile with role admin.
C22_NoSelfPromotion ==
    [][\A u \in AuthIds :
          (/\ profile_rows.rows[u] # "admin"
           /\ profile_rows'.last.caller = u
           /\ profile_rows'.last.op \in {"insert", "update"})
             => profile_rows'.rows[u] # "admin"]_vars

\* C27: a request carries the cached token only if it was cached less than 5
\* minutes before and the listener has not been called without a session
\* since; after such a call the cache is empty, and no request carries the
\* token of a session that has ended.
C27_CachedTokenFresh ==
    auth # Unused =>
        /\ auth.last.from = "cache" => (auth.last.age < TokenTtl /\ ~auth.last.cleared)
        /\ auth.cleared => auth.cachedToken = NULL
        /\ ~auth.last.ended

\* C27 witness: after the session of t1 had ended, a request carried the token
\* of the next session from the cache in the last minute before it goes stale
C27_Witness ==
    /\ auth # Unused
    /\ auth.ended = {"t1"} /\ auth.session = "t2"
    /\ auth.last.from = "cache" /\ auth.last.token = "t2"
    /\ auth.last.age = TokenTtl - 1

\* C28: a timer callback schedules the page reload only when at least two
\* callbacks have run since a response was last received and more than 30 s
\* have passed since then; every response received, whatever its status,
\* leaves the counter of consecutive timeouts at 0.
C28_ReloadOnlyWhenStuck ==
    timeouts # Unused =>
        /\ (timeouts.event.kind = "timeout" /\ timeouts.event.reload)
              => (timeouts.fired >= 2 /\ timeouts.quiet > ReloadAfter)
        /\ timeouts.event.kind = "response" => timeouts.consecutiveTimeouts = 0

\* C28 witness: the second timeout in a row, 40 s after the last response,
\* scheduled the reload while another call is still waiting for its response
C28_Witness ==
    /\ timeouts # Unused
    /\ timeouts.event = [kind |-> "timeout", reload |-> TRUE]
    /\ timeouts.consecutiveTimeouts = 2 /\ timeouts.fired = 2
    /\ timeouts.quiet = ReloadAfter + 1
    /\ \E r \in RequestIds : timeouts.requests[r].phase = "fetch"

====
